---- MODULE Spec2Model ----
(***************************************************************************)
(* A model of cogsim: the synchronous multi-pass simulator                 *)
(* (src/src/cogsim/sync/sync_simulator.py) driving the cooperative         *)
(* spectrum sensing users of src/main.py, and the reputation-weighted      *)
(* consensus (ReDiSen) they run.                                           *)
(*                                                                         *)
(* The specifications share the variables:                                 *)
(*   Spec          - main.py's users under SyncSimulator;                  *)
(*   SpecReDiSen   - src/redisen_basic.py's users under                    *)
(*                   SyncSimulator(num_bands=1, passes=2);                 *)
(*   SpecConsensus - the reputation and consensus functions of both        *)
(*                   files applied to drawn vote maps;                     *)
(*   SpecLegacy    - the single-pass Simulator of src/cogsim.py;           *)
(*   SpecNarrow    - main.py's users under a SyncSimulator built with      *)
(*                   fewer bands than the users choose from;               *)
(*   SpecQueue     - the event-queue scheduler QueueSimulator, and         *)
(*                   SpecQueueFair, the same under a driver that keeps     *)
(*                   calling step();                                       *)
(*   SpecDataset   - the dataset generator src/cloudsys_makedataset.py.    *)
(*                                                                         *)
(* Numbers.  The program computes in double precision.  Sensed powers are  *)
(* modelled as whole dBm; reputations as exact rationals <<num, den>>;     *)
(* the running consensus estimate as a fixed-point number with FIXED       *)
(* units per dBm (each round's delta is rounded down to a unit).           *)
(***************************************************************************)
EXTENDS Integers, Sequences, FiniteSets, TLC

\* ------------------------------------------------------------- constants
NUM_BANDS == 10
NOISE_FLOOR == -111
PU_TRANSMIT_POWER == 80
\* DISCOUNT_FACTOR = 0.995 = DISCOUNT_NUM / DISCOUNT_DEN
DISCOUNT_NUM == 995
DISCOUNT_DEN == 1000
\* range(150): the refinement rounds of one consensus evaluation
ROUNDS == 150
\* PrimaryUser.__init__: licensed_band: int = 0
LICENSED_BAND == 0
\* randint(10, 15) and randint(5, 10) of PrimaryUser.step
WAIT_LOW == 10
WAIT_HIGH == 15
TRANSMIT_LOW == 5
TRANSMIT_HIGH == 10
\* BaseUser.__init__: current_band = None
None == -1

\* ---------------------------------------------------------------- bounds
\* step() is called at most MaxSteps times
MaxSteps == 2
\* units of the fixed-point consensus estimate per dBm
FIXED == 100

\* What an honest user can read when a primary user is in its band:
\* pu.transmit_power - 10 * PATH_LOSS_EXPONENT * log10(distance) - power_loss,
\* one reading below and one above the presence threshold 0.0.
HonestReadings == {-20, 3}

\* The pass counts the drivers construct the simulator with
\* (main.py 256: passes=2; cloudsys_makedataset.py 126: passes=1).
PassCounts == {1, 2}

\* The populations the scenario driver builds (kinds in list order).
Populations ==
    { <<"CSSUser", "CSSUser", "PrimaryUser">>,
      <<"PrimaryUser", "MaliciousCSSUser", "CSSUser">> }

VARIABLES
    users,                  \* Simulator.users: the kinds, in list order
    num_bands,              \* Simulator.num_bands
    passes,                 \* Simulator.passes
    current_step,           \* Simulator.current_step
    current_band,           \* BaseUser.current_band of every user
    other_user_votes,       \* CSSUser.other_user_votes of every user
    last_sensed_pu_value,   \* CSSUser.last_sensed_pu_value (fixed-point)
    sensed_pu_history,      \* CSSUser.sensed_pu_history
    time_left_transmitting, \* PrimaryUser.time_left_transmitting
    time_left_waiting,      \* PrimaryUser.time_left_waiting
    pc,                     \* where step() is: "idle", "passes", "metrics", "failed"
    band_snapshot,          \* step()'s local band_snapshot
    pass_index,             \* step()'s loop variable pass_index
    user_index,             \* position of step()'s loop over self.users
    calls,                  \* history: the user.step calls of this step()
    metrics_calls,          \* history: the calculate_step_metrics calls of this step()
    step_calls,             \* history: how many times step() was called
    attack_likelihood,      \* MaliciousSecondaryUser.attack_likelihood, in percent
    evaluation,             \* history: the latest consensus evaluation
    wait_time,              \* QueueUser.wait_time of every user
    wait_time_remaining,    \* QueueUser.wait_time_remaining of every user
    total_time,             \* QueueSimulator.total_time
    next_user,              \* QueueSimulator.step()'s local next_user, 0 while unassigned
    deduct_calls,           \* history: the amounts passed to deduct_wait_time in this step()
    timer,                  \* RandomSwitchPrimaryUser.timer
    reported_value,         \* ProbabilisticSecondaryUser.reported_value
    history                 \* simulate()'s local history: <<reported value, flag>> per step

vars == <<users, num_bands, passes, current_step, current_band, other_user_votes,
          last_sensed_pu_value, sensed_pu_history, time_left_transmitting,
          time_left_waiting, pc, band_snapshot, pass_index, user_index,
          calls, metrics_calls, step_calls, attack_likelihood, evaluation,
          wait_time, wait_time_remaining, total_time, next_user, deduct_calls,
          timer, reported_value, history>>

\* the state of the dataset run of cloudsys_makedataset.py
datasetVars == <<timer, reported_value, history>>

\* no dataset run was started
NoDataset ==
    /\ timer = 0
    /\ reported_value = 0
    /\ history = <<>>

\* the state of the event-queue scheduler
queueVars == <<wait_time, wait_time_remaining, total_time, next_user, deduct_calls>>

\* no event-queue scheduler was built
NoQueue ==
    /\ wait_time = <<>>
    /\ wait_time_remaining = <<>>
    /\ total_time = 0
    /\ next_user = 0
    /\ deduct_calls = <<>>

\* ------------------------------------------------------------ helpers
UserIds == 1..Len(users)

Abs(x) == IF x < 0 THEN -x ELSE x

RECURSIVE SumSeq(_)
SumSeq(s) == IF s = <<>> THEN 0 ELSE Head(s) + SumSeq(Tail(s))

IsCSSUser(u) == users[u] \in {"CSSUser", "MaliciousCSSUser"}
IsPrimaryUser(u) == users[u] = "PrimaryUser"

\* A membership view handed to user.step: None, or a band's list.
AbsentView == [present |-> FALSE, members |-> <<>>]
ListView(l) == [present |-> TRUE, members |-> l]

InSeq(x, s) == \E i \in 1..Len(s) : s[i] = x

\* ------------------------------------------------- SyncSimulator.band_contents
BandInRange(b) == 0 <= b /\ b < num_bands

\* the users of band b, in list order
UsersInBand(bands, b) ==
    SelectSeq([i \in 1..Len(users) |-> i], LAMBDA u : bands[u] = b)

\* band_contents without its assert
BandContentsUnchecked(bands) == TRUE

\* the assert of band_contents holds for every user that is in a band
BandContentsOk(bands) ==
    \A u \in UserIds : bands[u] # None => BandInRange(bands[u])

BandContents(bands) == [b \in 0..(num_bands - 1) |-> UsersInBand(bands, b)]

\* no consensus evaluation has run yet
NoEvaluation ==
    [user |-> 0, start |-> 0, vals |-> <<>>, reps |-> <<>>, estimates |-> <<>>]

\* ---------------------------------------------------------------- Init
Init ==
    /\ users \in Populations
    /\ num_bands = NUM_BANDS
    /\ passes \in PassCounts
    /\ current_step = 0
    /\ current_band = [u \in UserIds |-> None]
    /\ other_user_votes = [u \in UserIds |-> <<>>]
    /\ last_sensed_pu_value = [u \in UserIds |-> 0]
    /\ sensed_pu_history = [u \in UserIds |-> <<>>]
    /\ time_left_transmitting = [u \in UserIds |-> 0]
    /\ time_left_waiting = [u \in UserIds |-> 0]
    /\ pc = "idle"
    /\ band_snapshot = <<>>
    /\ pass_index = 0
    /\ user_index = 1
    /\ calls = <<>>
    /\ metrics_calls = <<>>
    /\ step_calls = 0
    /\ attack_likelihood = [u \in UserIds |-> 0]
    /\ evaluation = NoEvaluation
    /\ NoQueue
    /\ NoDataset

\* ------------------------------------------------------- sensing (main.py)
\* primary_users_in_band: [] for None, else the PrimaryUsers of the list
PrimaryUsersInBand(view) ==
    IF ~view.present THEN <<>>
    ELSE SelectSeq(view.members, LAMBDA x : IsPrimaryUser(x))

\* CSSUser.sense_pu_value: the readings the call can return (the Gaussian
\* power loss makes the reading with a primary user present a choice)
HonestSensePuValue(view) ==
    IF Len(PrimaryUsersInBand(view)) > 0 THEN HonestReadings ELSE {NOISE_FLOOR}

\* MaliciousCSSUser.sense_pu_value
MaliciousCSSSensePuValue(view) ==
    {IF Len(PrimaryUsersInBand(view)) > 0 THEN NOISE_FLOOR ELSE PU_TRANSMIT_POWER}

SensePuValue(u, view) ==
    IF users[u] = "MaliciousCSSUser" THEN MaliciousCSSSensePuValue(view)
    ELSE HonestSensePuValue(view)

\* ----------------------------------------------- consensus in CSSUser.step
Fx(v) == v * FIXED

\* n * |v - avg| for every value of vals, where avg = sum / n
ScaledDeviations(vals) ==
    LET n == Len(vals)
        s == SumSeq(vals)
    IN  [i \in 1..n |-> Abs(n * vals[i] - s)]

\* a sign slip: 2 + n * |v - avg| / denominator_summation
CSSReputationsSignSlip(vals) ==
    LET n == Len(vals)
        dev == ScaledDeviations(vals)
        devSum == SumSeq(dev)
        den == IF devSum = 0 THEN 1 ELSE devSum
    IN  [i \in 1..n |-> <<2 * den + n * dev[i], den>>]

\* main.py 201-215: the reputation of every neighbour, as <<num, den>>.
\* denominator_summation is sum(|v - avg|), replaced by 1.0 when it is 0.0;
\* reputation = 2 - n * |v - avg| / denominator_summation.
CSSReputations(vals) ==
    LET n == Len(vals)
        dev == ScaledDeviations(vals)
        devSum == SumSeq(dev)
        den == IF devSum = 0 THEN 1 ELSE devSum
    IN  [i \in 1..n |-> <<2 * den - n * dev[i], den>>]

\* a round that adds every neighbour's term to the estimate as soon as it is
\* computed, so that the next neighbour's term sees the moved estimate
RECURSIVE EstimateUpdatedInPlace(_, _, _, _)
EstimateUpdatedInPlace(est, vals, reps, i) ==
    IF i > Len(vals) THEN est
    ELSE EstimateUpdatedInPlace(
             est + ((DISCOUNT_DEN - DISCOUNT_NUM) * reps[i][1] * (Fx(vals[i]) - est))
                     \div (DISCOUNT_DEN * reps[i][2]),
             vals, reps, i + 1)

RoundSummationInPlace(est, vals, reps) ==
    EstimateUpdatedInPlace(est, vals, reps, 1) - est

\* one refinement round: summation of (1 - DISCOUNT_FACTOR) * reputation *
\* (vote - estimate) over the neighbours, every term against the estimate
\* the round started with
RoundSummation(est, vals, reps) ==
    LET n == Len(vals)
        terms == [i \in 1..n |->
                    (DISCOUNT_DEN - DISCOUNT_NUM) * reps[i][1] * (Fx(vals[i]) - est)]
    IN  IF n = 0 THEN 0 ELSE SumSeq(terms) \div (DISCOUNT_DEN * reps[1][2])

\* the estimates after rounds 1..k, newest last (the rounds are split in
\* halves only to keep the evaluation shallow: round j starts from the
\* estimate round j - 1 ended with)
RECURSIVE Refine(_, _, _, _)
Refine(est, vals, reps, k) ==
    IF k = 0 THEN <<>>
    ELSE IF k = 1 THEN <<est + RoundSummation(est, vals, reps)>>
    ELSE LET h == k \div 2
             first == Refine(est, vals, reps, h)
         IN  first \o Refine(first[h], vals, reps, k - h)

\* main.py 196-197: the votes of the band's members that have one in the map
NeighborVotes(votes, members) ==
    LET neighbors == SelectSeq(members, LAMBDA x : x \in DOMAIN votes)
    IN  [i \in 1..Len(neighbors) |-> votes[neighbors[i]]]

\* main.py 199-223: the consensus evaluation of user u that sensed `sensed`
\* and holds the neighbour votes vals (a non-empty sequence)
CSSEvaluation(u, vals, sensed) ==
    LET reps == CSSReputations(vals)
    IN  [user |-> u, start |-> sensed, vals |-> vals, reps |-> reps,
         estimates |-> Refine(Fx(sensed), vals, reps, ROUNDS)]

\* main.py 196-225: the fused estimate of user u that sensed `sensed`
\* in the band list `members`, given its vote map
CSSFusedEstimate(u, votes, members, sensed) ==
    LET vals == NeighborVotes(votes, members)
    IN  IF Len(vals) # 0
        THEN CSSEvaluation(u, vals, sensed).estimates[ROUNDS]
        ELSE Fx(sensed)

\* the delivery by a sender that also empties its own map, so as to start
\* its next evaluation from fresh votes
DeliverVotesAndForget(votes, members, source, value) ==
    [x \in DOMAIN votes |->
        IF x = source THEN <<>>
        ELSE IF InSeq(x, members) /\ IsCSSUser(x)
        THEN (source :> value) @@ votes[x]
        ELSE votes[x]]

\* receive_primary_user_presence_vote from `source` at every CSSUser of the
\* list other than the source itself
DeliverVotes(votes, members, source, value) ==
    [x \in DOMAIN votes |->
        IF InSeq(x, members) /\ IsCSSUser(x) /\ x # source
        THEN (source :> value) @@ votes[x]
        ELSE votes[x]]

\* the threshold test with its comparison turned round
PuIsPresentSignSlip(est) == est <= 0

\* main.py 230-234: pu_is_present = sensed_pu_value >= 0.0
PuIsPresent(est) == est >= 0

\* a draw that includes its upper end NUM_BANDS
ChooseBandInclusive == 0..NUM_BANDS

\* randint(0, NUM_BANDS - 1): the bands a CSSUser without a band can pick
ChooseBand == 0..(NUM_BANDS - 1)

\* --------------------------------------------------- SyncSimulator.step
\* band_snapshot[user.current_band] raises IndexError past the last band
ViewOk(snapshot, bands, u) ==
    bands[u] = None \/ bands[u] \in DOMAIN snapshot

\* the list of the band the user was in when the snapshot was taken
ViewForStartOfStep(snapshot, bands, u) ==
    IF \E b \in DOMAIN snapshot : InSeq(u, snapshot[b])
    THEN ListView(snapshot[CHOOSE b \in DOMAIN snapshot : InSeq(u, snapshot[b])])
    ELSE AbsentView

\* the first argument of user.step (sync_simulator.py 43-45)
ViewFor(snapshot, bands, u) ==
    IF bands[u] = None THEN AbsentView ELSE ListView(snapshot[bands[u]])

\* an exception leaves step(): nothing after the raising statement runs
Raise ==
    /\ pc' = "failed"
    /\ UNCHANGED <<current_band, other_user_votes, last_sensed_pu_value,
                   time_left_transmitting, time_left_waiting, band_snapshot,
                   pass_index, user_index, calls, evaluation>>

\* band membership recomputed after every call
SnapshotRebuilt(snapshot, bands) == BandContents(bands)

\* the snapshot used by the call after this one: the local is never rebuilt
SnapshotInLoop(snapshot, bands) == snapshot

\* step() begins: band_snapshot = self.band_contents()
StepBegin ==
    /\ pc = "idle"
    /\ step_calls < MaxSteps
    /\ step_calls' = step_calls + 1
    /\ calls' = <<>>
    /\ metrics_calls' = <<>>
    /\ IF BandContentsOk(current_band)
       THEN /\ band_snapshot' = BandContents(current_band)
            /\ pc' = "passes"
            /\ pass_index' = 0
            /\ user_index' = 1
       ELSE /\ pc' = "failed"
            /\ UNCHANGED <<band_snapshot, pass_index, user_index>>
    /\ UNCHANGED <<users, num_bands, passes, attack_likelihood, evaluation, current_step, current_band,
                   other_user_votes, last_sensed_pu_value, sensed_pu_history,
                   time_left_transmitting, time_left_waiting>>
    /\ UNCHANGED queueVars
    /\ UNCHANGED datasetVars

\* the loops nested the other way round: all passes of a user, then the next user
NextCallUserMajor ==
    IF pass_index + 1 < passes
    THEN /\ pass_index' = pass_index + 1
         /\ UNCHANGED <<user_index, pc>>
    ELSE IF user_index < Len(users)
    THEN /\ user_index' = user_index + 1
         /\ pass_index' = 0
         /\ UNCHANGED pc
    ELSE /\ user_index' = 1
         /\ pc' = "metrics"
         /\ UNCHANGED pass_index

\* the loops of sync_simulator.py 40-41 move on to the next call
NextCall ==
    IF user_index < Len(users)
    THEN /\ user_index' = user_index + 1
         /\ UNCHANGED <<pass_index, pc>>
    ELSE IF pass_index + 1 < passes
    THEN /\ user_index' = 1
         /\ pass_index' = pass_index + 1
         /\ UNCHANGED pc
    ELSE /\ user_index' = 1
         /\ pc' = "metrics"
         /\ UNCHANGED pass_index

\* `reported` is <<v>> when the call sent the reading v to the band, else <<>>
LogCall(u, view, after, reported) ==
    calls' = Append(calls, [user |-> u, pass |-> pass_index, view |-> view,
                            before |-> current_band[u], after |-> after,
                            reported |-> reported])

\* switch_to_band with current_band kept on the class, shared by all users
SwitchToBandShared(bands, u, band_id) == [x \in DOMAIN bands |-> band_id]

\* BaseUser.switch_to_band (core/user.py 14-20): sets the user's own field
SwitchToBand(bands, u, band_id) == [bands EXCEPT ![u] = band_id]

\* CSSUser.step(current_band_contents, pass_index), main.py 178-234
CSSUserCall(u, view) ==
    IF ~view.present
    THEN \E b \in ChooseBand :
           /\ current_band' = SwitchToBand(current_band, u, b)
           /\ LogCall(u, view, b, <<>>)
           /\ UNCHANGED <<other_user_votes, last_sensed_pu_value, evaluation>>
    ELSE \E sensed \in SensePuValue(u, view) :
           LET vals == NeighborVotes(other_user_votes[u], view.members)
               est == CSSFusedEstimate(u, other_user_votes[u], view.members, sensed)
               after == IF PuIsPresent(est) THEN None ELSE current_band[u]
           IN  /\ evaluation' = IF Len(vals) # 0 THEN CSSEvaluation(u, vals, sensed)
                                ELSE evaluation
               /\ other_user_votes' =
                    DeliverVotes(other_user_votes, view.members, u, sensed)
               /\ last_sensed_pu_value' = [last_sensed_pu_value EXCEPT ![u] = est]
               /\ current_band' = IF PuIsPresent(est)
                                  THEN SwitchToBand(current_band, u, None)
                                  ELSE current_band
               /\ LogCall(u, view, after, <<sensed>>)

CSSUserStep ==
    /\ pc = "passes"
    /\ IsCSSUser(user_index)
    /\ IF ViewOk(band_snapshot, current_band, user_index)
       THEN /\ CSSUserCall(user_index, ViewFor(band_snapshot, current_band, user_index))
            /\ band_snapshot' = SnapshotInLoop(band_snapshot, current_band')
            /\ NextCall
            /\ UNCHANGED <<time_left_transmitting, time_left_waiting>>
       ELSE Raise
    /\ UNCHANGED <<users, num_bands, passes, attack_likelihood, current_step, sensed_pu_history,
                   metrics_calls, step_calls>>
    /\ UNCHANGED queueVars
    /\ UNCHANGED datasetVars

\* PrimaryUser.step(current_band_contents, pass_index), main.py 76-86
PrimaryUserCall(u, view) ==
    IF current_band[u] # None
    THEN IF time_left_transmitting[u] - 1 <= 0
         THEN \E w \in WAIT_LOW..WAIT_HIGH :
                /\ current_band' = [current_band EXCEPT ![u] = None]
                /\ time_left_transmitting' =
                     [time_left_transmitting EXCEPT ![u] = @ - 1]
                /\ time_left_waiting' = [time_left_waiting EXCEPT ![u] = w]
                /\ LogCall(u, view, None, <<>>)
         ELSE /\ time_left_transmitting' =
                     [time_left_transmitting EXCEPT ![u] = @ - 1]
              /\ LogCall(u, view, current_band[u], <<>>)
              /\ UNCHANGED <<current_band, time_left_waiting>>
    ELSE IF time_left_waiting[u] - 1 <= 0
         THEN \E t \in TRANSMIT_LOW..TRANSMIT_HIGH :
                /\ current_band' = [current_band EXCEPT ![u] = LICENSED_BAND]
                /\ time_left_waiting' = [time_left_waiting EXCEPT ![u] = @ - 1]
                /\ time_left_transmitting' =
                     [time_left_transmitting EXCEPT ![u] = t]
                /\ LogCall(u, view, LICENSED_BAND, <<>>)
         ELSE /\ time_left_waiting' = [time_left_waiting EXCEPT ![u] = @ - 1]
              /\ LogCall(u, view, current_band[u], <<>>)
              /\ UNCHANGED <<current_band, time_left_transmitting>>

PrimaryUserStep ==
    /\ pc = "passes"
    /\ IsPrimaryUser(user_index)
    /\ IF ViewOk(band_snapshot, current_band, user_index)
       THEN /\ PrimaryUserCall(user_index,
                               ViewFor(band_snapshot, current_band, user_index))
            /\ band_snapshot' = SnapshotInLoop(band_snapshot, current_band')
            /\ NextCall
            /\ UNCHANGED <<other_user_votes, last_sensed_pu_value, evaluation>>
       ELSE Raise
    /\ UNCHANGED <<users, num_bands, passes, attack_likelihood, current_step, sensed_pu_history,
                   metrics_calls, step_calls>>
    /\ UNCHANGED queueVars
    /\ UNCHANGED datasetVars

\* the argument of calculate_step_metrics (sync_simulator.py 51)
MetricsArgument == current_step

\* user.calculate_step_metrics(self.current_step), sync_simulator.py 50-51.
\* No class of main.py overrides it to any effect: PrimaryUser's is `pass`,
\* and CSSUser defines calulcate_step_metrics, a method of another name, so
\* BaseUser's empty method runs.
CalculateStepMetrics ==
    /\ pc = "metrics"
    /\ user_index <= Len(users)
    /\ metrics_calls' = Append(metrics_calls, <<user_index, MetricsArgument>>)
    /\ user_index' = user_index + 1
    /\ UNCHANGED <<users, num_bands, passes, attack_likelihood, evaluation, current_step, current_band,
                   other_user_votes, last_sensed_pu_value, sensed_pu_history,
                   time_left_transmitting, time_left_waiting, pc, band_snapshot,
                   pass_index, calls, step_calls>>
    /\ UNCHANGED queueVars
    /\ UNCHANGED datasetVars

\* the counter after step() (sync_simulator.py 53)
StepCounterAfter(c) == c + 1

\* self.current_step += 1, and step() returns
StepEnd ==
    /\ pc = "metrics"
    /\ user_index = Len(users) + 1
    /\ current_step' = StepCounterAfter(current_step)
    /\ pc' = "idle"
    /\ user_index' = 1
    /\ UNCHANGED <<users, num_bands, passes, attack_likelihood, evaluation, current_band, other_user_votes,
                   last_sensed_pu_value, sensed_pu_history, time_left_transmitting,
                   time_left_waiting, band_snapshot, pass_index, calls,
                   metrics_calls, step_calls>>
    /\ UNCHANGED queueVars
    /\ UNCHANGED datasetVars

Next == StepBegin \/ CSSUserStep \/ PrimaryUserStep \/ CalculateStepMetrics \/ StepEnd

Spec == Init /\ [][Next]_vars

TypeOK ==
    /\ pc \in {"idle", "passes", "metrics", "failed"}
    /\ current_step \in 0..MaxSteps
    /\ \A u \in UserIds : current_band[u] \in {None} \cup 0..NUM_BANDS

\* ------------------------------------------- redisen_basic.py: consensus
\* a float that is not a number (the estimate once a NaN entered the sum)
NaN == -2000000000

\* the reputation NaN, as the rational 0/0
NaNReputation == <<0, 0>>

IsNaNReputation(r) == r[2] = 0

\* calculate_reputations (redisen_basic.py 52-69), as <<num, den>> per vote.
\* denominator = sum(|v - avg|) is a numpy float: when it is 0.0,
\* frac_part = len / denominator is inf and every reputation is
\* 2 - inf * 0.0 = nan.
CalculateReputations(vals) ==
    LET n == Len(vals)
        dev == ScaledDeviations(vals)
        devSum == SumSeq(dev)
    IN  [i \in 1..n |-> IF devSum = 0 THEN NaNReputation
                        ELSE <<2 * devSum - n * dev[i], devSum>>]

\* redisen_basic.py 155-165: the estimates appended to sensed_pu_history.
\* A nan reputation makes the first summation nan, and final_pu_value stays nan.
BasicEstimates(start, vals, reps) ==
    IF \E i \in 1..Len(reps) : IsNaNReputation(reps[i])
    THEN [k \in 1..ROUNDS |-> NaN]
    ELSE Refine(Fx(start), vals, reps, ROUNDS)

\* the keys of a vote map in order, and its values in that order
RECURSIVE KeysInOrder(_)
KeysInOrder(keys) ==
    IF keys = {} THEN <<>>
    ELSE LET k == CHOOSE x \in keys : \A y \in keys : x <= y
         IN  <<k>> \o KeysInOrder(keys \ {k})

VoteValuesOf(votes) ==
    LET keys == KeysInOrder(DOMAIN votes)
    IN  [i \in 1..Len(keys) |-> votes[keys[i]]]

\* evaluate_neighbors raises: np.average over a vote that is None is a
\* TypeError, self.other_user_votes[self] without an own vote a KeyError
EvaluateNeighborsRaises(u, votes) ==
    \/ \E x \in DOMAIN votes : votes[x] = None
    \/ u \notin DOMAIN votes

\* what evaluate_neighbors has computed when it raises: a None vote raises
\* inside calculate_reputations; without an own vote calculate_reputations
\* has returned (line 150) when line 153 raises, and no round was run
EvaluateNeighborsUntilRaise(u, votes) ==
    IF \E x \in DOMAIN votes : votes[x] = None
    THEN evaluation
    ELSE [user |-> u, start |-> None, vals |-> VoteValuesOf(votes),
          reps |-> CalculateReputations(VoteValuesOf(votes)), estimates |-> <<>>]

\* evaluate_neighbors started from the (rounded down) mean of the votes
EvaluateNeighborsFromMean(u, votes) ==
    LET vals == VoteValuesOf(votes)
        reps == CalculateReputations(vals)
        avg == SumSeq(vals) \div Len(vals)
    IN  [user |-> u, start |-> avg, vals |-> vals, reps |-> reps,
         estimates |-> BasicEstimates(avg, vals, reps)]

\* BasicReDiSenSecondaryUser.evaluate_neighbors (redisen_basic.py 149-165)
EvaluateNeighbors(u, votes) ==
    LET vals == VoteValuesOf(votes)
        reps == CalculateReputations(vals)
    IN  [user |-> u, start |-> votes[u], vals |-> vals, reps |-> reps,
         estimates |-> BasicEstimates(votes[u], vals, reps)]

\* ----------------------------------------- the consensus on drawn inputs
\* One user (user 1) holding a vote map drawn from bounded sets evaluates it
\* once: a CSSUser by the consensus part of CSSUser.step (main.py 196-225),
\* a BasicReDiSenSecondaryUser by evaluate_neighbors.

\* a vote map has at most MaxPeers entries
MaxPeers == 3

\* the reports votes are drawn from
VoteValues == {NOISE_FLOOR, 0, 10, 100}

\* the vote maps over the peers `peers`
VoteMaps(peers) == [peers -> VoteValues]

InitConsensus ==
    /\ \/ \E n \in 0..MaxPeers :
            /\ users = [i \in 1..(n + 1) |-> "CSSUser"]
            /\ \E m \in VoteMaps(2..(n + 1)) :
                 other_user_votes = [u \in 1..(n + 1) |-> IF u = 1 THEN m ELSE <<>>]
       \/ \E n \in 1..MaxPeers :
            /\ users = [i \in 1..n |-> "BasicReDiSenSecondaryUser"]
            /\ \E m \in VoteMaps(1..n) \cup {<<>>} :
                 other_user_votes = [u \in 1..n |-> IF u = 1 THEN m ELSE <<>>]
    /\ num_bands = 1
    /\ passes = 2
    /\ current_step = 0
    /\ current_band = [u \in UserIds |-> 0]
    /\ last_sensed_pu_value = [u \in UserIds |-> 0]
    /\ sensed_pu_history = [u \in UserIds |-> <<>>]
    /\ time_left_transmitting = [u \in UserIds |-> 0]
    /\ time_left_waiting = [u \in UserIds |-> 0]
    /\ pc = "evaluate"
    /\ band_snapshot = BandContents(current_band)
    /\ pass_index = 0
    /\ user_index = 1
    /\ calls = <<>>
    /\ metrics_calls = <<>>
    /\ step_calls = 0
    /\ attack_likelihood = [u \in UserIds |-> 0]
    /\ evaluation = NoEvaluation
    /\ NoQueue
    /\ NoDataset

\* main.py 196-225 on user 1, in a band with all its peers
CSSEvaluateVotes ==
    /\ pc = "evaluate"
    /\ users[1] = "CSSUser"
    /\ \E sensed \in VoteValues :
         LET vals == NeighborVotes(other_user_votes[1], band_snapshot[0])
         IN  /\ evaluation' = IF Len(vals) # 0 THEN CSSEvaluation(1, vals, sensed)
                                ELSE evaluation
             /\ last_sensed_pu_value' =
                  [last_sensed_pu_value EXCEPT ![1] =
                     CSSFusedEstimate(1, other_user_votes[1], band_snapshot[0], sensed)]
    /\ pc' = "done"
    /\ UNCHANGED <<users, num_bands, passes, attack_likelihood, current_step,
                   current_band, other_user_votes, sensed_pu_history,
                   time_left_transmitting, time_left_waiting, band_snapshot,
                   pass_index, user_index, calls, metrics_calls, step_calls>>
    /\ UNCHANGED queueVars
    /\ UNCHANGED datasetVars

\* evaluate_neighbors on user 1
BasicEvaluateVotes ==
    /\ pc = "evaluate"
    /\ users[1] = "BasicReDiSenSecondaryUser"
    /\ IF EvaluateNeighborsRaises(1, other_user_votes[1])
       THEN /\ evaluation' = EvaluateNeighborsUntilRaise(1, other_user_votes[1])
            /\ sensed_pu_history' = [sensed_pu_history EXCEPT ![1] = <<>>]
            /\ pc' = "failed"
       ELSE /\ evaluation' = EvaluateNeighbors(1, other_user_votes[1])
            /\ sensed_pu_history' =
                 [sensed_pu_history EXCEPT
                    ![1] = EvaluateNeighbors(1, other_user_votes[1]).estimates]
            /\ pc' = "done"
    /\ UNCHANGED <<users, num_bands, passes, attack_likelihood, current_step,
                   current_band, other_user_votes, last_sensed_pu_value,
                   time_left_transmitting, time_left_waiting, band_snapshot,
                   pass_index, user_index, calls, metrics_calls, step_calls>>
    /\ UNCHANGED queueVars
    /\ UNCHANGED datasetVars

NextConsensus == CSSEvaluateVotes \/ BasicEvaluateVotes

SpecConsensus == InitConsensus /\ [][NextConsensus]_vars

\* ------------------------------- redisen_basic.py under SyncSimulator
\* The users of src/redisen_basic.py: BasicReDiSenSecondaryUser,
\* MaliciousSecondaryUser and PrimaryUser (which has no step of its own),
\* driven by SyncSimulator(num_bands=1, passes=2) as main() builds it.

\* attack_likelihood of a MaliciousSecondaryUser, in percent
AttackLikelihoods == {0, 50, 100}

ReDiSenPopulations ==
    { <<"BasicReDiSenSecondaryUser", "MaliciousSecondaryUser",
        "PrimaryUser(transmit=True)">>,
      <<"MaliciousSecondaryUser", "PrimaryUser(transmit=False)",
        "BasicReDiSenSecondaryUser">>,
      <<"BasicReDiSenSecondaryUser", "BasicReDiSenSecondaryUser",
        "PrimaryUser(transmit=True)">> }

\* isinstance(user, BasicReDiSenSecondaryUser): the class or its subclass
IsBasicReDiSen(u) ==
    users[u] \in {"BasicReDiSenSecondaryUser", "MaliciousSecondaryUser"}

IsReDiSenPrimary(u) ==
    users[u] \in {"PrimaryUser(transmit=True)", "PrimaryUser(transmit=False)"}

\* redisen_basic.py 45-50
ReDiSenPrimaryUsersInBand(view) ==
    IF ~view.present THEN <<>>
    ELSE SelectSeq(view.members, LAMBDA x : IsReDiSenPrimary(x))

InitReDiSen ==
    /\ users \in ReDiSenPopulations
    /\ num_bands = 1
    /\ passes = 2
    /\ current_step = 0
    /\ current_band = [u \in UserIds |->
                         IF users[u] = "PrimaryUser(transmit=False)" THEN None ELSE 0]
    /\ other_user_votes = [u \in UserIds |-> <<>>]
    /\ last_sensed_pu_value = [u \in UserIds |-> 0]
    /\ sensed_pu_history = [u \in UserIds |-> <<>>]
    /\ time_left_transmitting = [u \in UserIds |-> 0]
    /\ time_left_waiting = [u \in UserIds |-> 0]
    /\ pc = "idle"
    /\ band_snapshot = <<>>
    /\ pass_index = 0
    /\ user_index = 1
    /\ calls = <<>>
    /\ metrics_calls = <<>>
    /\ step_calls = 0
    /\ attack_likelihood \in [UserIds -> AttackLikelihoods]
    /\ \A u \in UserIds : users[u] # "MaliciousSecondaryUser" => attack_likelihood[u] = 0
    /\ evaluation = NoEvaluation
    /\ NoQueue
    /\ NoDataset

\* SecondaryUser.sense_pu_value (redisen_basic.py 113-133)
SecondarySensePuValue(view) ==
    IF Len(ReDiSenPrimaryUsersInBand(view)) > 0 THEN HonestReadings ELSE {NOISE_FLOOR}

\* the attack branch with its two constants exchanged
AttackValueExchanged(view) ==
    IF Len(ReDiSenPrimaryUsersInBand(view)) > 0 THEN PU_TRANSMIT_POWER ELSE NOISE_FLOOR

\* the value the attack branch returns (redisen_basic.py 192-196)
AttackValue(view) ==
    IF Len(ReDiSenPrimaryUsersInBand(view)) > 0 THEN NOISE_FLOOR ELSE PU_TRANSMIT_POWER

\* what the else branch returns (redisen_basic.py 197-198): the honest
\* reading is computed and dropped, the method falls off its end
MaliciousElseBranch(view) == {None}

\* MaliciousSecondaryUser.sense_pu_value (redisen_basic.py 186-198):
\* uniform() in [0, 1) is below attack_likelihood never when it is 0,
\* always when it is 1
MaliciousSensePuValue(u, view) ==
    (IF attack_likelihood[u] > 0 THEN {AttackValue(view)} ELSE {})
    \cup (IF attack_likelihood[u] < 100 THEN MaliciousElseBranch(view) ELSE {})

ReDiSenSensePuValue(u, view) ==
    IF users[u] = "MaliciousSecondaryUser" THEN MaliciousSensePuValue(u, view)
    ELSE SecondarySensePuValue(view)

\* the reading sent to every cooperating user of the band but the sender
BasicDeliverVotesToOthers(votes, members, source, value) ==
    [x \in DOMAIN votes |->
        IF InSeq(x, members) /\ IsBasicReDiSen(x) /\ x # source
        THEN (source :> value) @@ votes[x]
        ELSE votes[x]]

\* redisen_basic.py 145-147 and 170-171: receive_primary_user_readings at
\* every BasicReDiSenSecondaryUser of the band, the sender included
BasicDeliverVotes(votes, members, source, value) ==
    [x \in DOMAIN votes |->
        IF InSeq(x, members) /\ IsBasicReDiSen(x)
        THEN (source :> value) @@ votes[x]
        ELSE votes[x]]

\* measure_and_send_to_neighbors (redisen_basic.py 143-147);
\* `for user in band` raises TypeError when band is None
MeasureAndSendToNeighbors(u, view) ==
    \E sensed \in ReDiSenSensePuValue(u, view) :
        IF view.present
        THEN /\ other_user_votes' =
                  BasicDeliverVotes(other_user_votes, view.members, u, sensed)
             /\ LogCall(u, view, current_band[u], <<sensed>>)
             /\ band_snapshot' = SnapshotInLoop(band_snapshot, current_band)
             /\ NextCall
        ELSE /\ pc' = "failed"
             /\ UNCHANGED <<other_user_votes, calls, band_snapshot, pass_index,
                            user_index>>

\* a call that does nothing: BaseUser.step, or a pass the user has no branch for
EmptyCall(u, view) ==
    /\ LogCall(u, view, current_band[u], <<>>)
    /\ band_snapshot' = SnapshotInLoop(band_snapshot, current_band)
    /\ NextCall

\* BasicReDiSenSecondaryUser.step (redisen_basic.py 137-141)
BasicReDiSenStep ==
    /\ pc = "passes"
    /\ users[user_index] = "BasicReDiSenSecondaryUser"
    /\ LET u == user_index
           view == ViewFor(band_snapshot, current_band, u)
       IN  IF pass_index = 0
           THEN /\ MeasureAndSendToNeighbors(u, view)
                /\ UNCHANGED <<evaluation, sensed_pu_history>>
           ELSE IF pass_index = 1
           THEN IF EvaluateNeighborsRaises(u, other_user_votes[u])
                THEN /\ pc' = "failed"
                     /\ sensed_pu_history' =
                          IF \E x \in DOMAIN other_user_votes[u] :
                                 other_user_votes[u][x] = None
                          THEN sensed_pu_history
                          ELSE [sensed_pu_history EXCEPT ![u] = <<>>]
                     /\ evaluation' =
                          EvaluateNeighborsUntilRaise(u, other_user_votes[u])
                     /\ UNCHANGED <<other_user_votes, calls,
                                    band_snapshot, pass_index, user_index>>
                ELSE /\ evaluation' = EvaluateNeighbors(u, other_user_votes[u])
                     /\ sensed_pu_history' =
                          [sensed_pu_history EXCEPT
                             ![u] = EvaluateNeighbors(u, other_user_votes[u]).estimates]
                     /\ EmptyCall(u, view)
                     /\ UNCHANGED other_user_votes
           ELSE /\ EmptyCall(u, view)
                /\ UNCHANGED <<evaluation, sensed_pu_history, other_user_votes>>
    /\ UNCHANGED <<users, num_bands, passes, attack_likelihood, current_step,
                   current_band, last_sensed_pu_value, time_left_transmitting,
                   time_left_waiting, metrics_calls, step_calls>>
    /\ UNCHANGED queueVars
    /\ UNCHANGED datasetVars

\* MaliciousSecondaryUser.step (redisen_basic.py 178-184)
MaliciousStep ==
    /\ pc = "passes"
    /\ users[user_index] = "MaliciousSecondaryUser"
    /\ LET u == user_index
           view == ViewFor(band_snapshot, current_band, u)
       IN  IF pass_index = 0
           THEN MeasureAndSendToNeighbors(u, view)
           ELSE /\ EmptyCall(u, view)
                /\ UNCHANGED other_user_votes
    /\ UNCHANGED <<users, num_bands, passes, attack_likelihood, evaluation,
                   current_step, current_band, last_sensed_pu_value,
                   sensed_pu_history, time_left_transmitting, time_left_waiting,
                   metrics_calls, step_calls>>
    /\ UNCHANGED queueVars
    /\ UNCHANGED datasetVars

\* PrimaryUser of redisen_basic.py defines no step: BaseUser.step runs
\* (core/user.py 22-33)
BaseUserStep ==
    /\ pc = "passes"
    /\ IsReDiSenPrimary(user_index)
    /\ EmptyCall(user_index, ViewFor(band_snapshot, current_band, user_index))
    /\ UNCHANGED <<users, num_bands, passes, attack_likelihood, evaluation,
                   current_step, current_band, other_user_votes,
                   last_sensed_pu_value, sensed_pu_history, time_left_transmitting,
                   time_left_waiting, metrics_calls, step_calls>>
    /\ UNCHANGED queueVars
    /\ UNCHANGED datasetVars

NextReDiSen ==
    \/ StepBegin
    \/ BasicReDiSenStep
    \/ MaliciousStep
    \/ BaseUserStep
    \/ CalculateStepMetrics
    \/ StepEnd

SpecReDiSen == InitReDiSen /\ [][NextReDiSen]_vars

\* ------------------------------------------------ cogsim.py: Simulator
\* The single-pass Simulator of src/cogsim.py and its abstract BaseUser.
\* It shares the simulator's variables; passes stays 1 (one loop over users).

\* the band counts the legacy simulator is constructed with
LegacyBandCounts == {1, 2}

LegacyPopulations == { <<"BaseUser", "BaseUser">> }

InitLegacy ==
    /\ users \in LegacyPopulations
    /\ num_bands \in LegacyBandCounts
    /\ passes = 1
    /\ current_step = 0
    /\ current_band = [u \in UserIds |-> None]
    /\ other_user_votes = [u \in UserIds |-> <<>>]
    /\ last_sensed_pu_value = [u \in UserIds |-> 0]
    /\ sensed_pu_history = [u \in UserIds |-> <<>>]
    /\ time_left_transmitting = [u \in UserIds |-> 0]
    /\ time_left_waiting = [u \in UserIds |-> 0]
    /\ pc = "idle"
    /\ band_snapshot = <<>>
    /\ pass_index = 0
    /\ user_index = 1
    /\ calls = <<>>
    /\ metrics_calls = <<>>
    /\ step_calls = 0
    /\ attack_likelihood = [u \in UserIds |-> 0]
    /\ evaluation = NoEvaluation
    /\ NoQueue
    /\ NoDataset

\* Simulator.step begins: band_snapshot = self.band_contents() (cogsim.py 66)
LegacyStepBegin ==
    /\ pc = "idle"
    /\ step_calls < MaxSteps
    /\ step_calls' = step_calls + 1
    /\ calls' = <<>>
    /\ metrics_calls' = <<>>
    /\ IF BandContentsOk(current_band)
       THEN /\ band_snapshot' = BandContents(current_band)
            /\ pc' = "passes"
            /\ user_index' = 1
       ELSE /\ pc' = "failed"
            /\ UNCHANGED <<band_snapshot, user_index>>
    /\ UNCHANGED <<users, num_bands, passes, attack_likelihood, evaluation, current_step, current_band,
                   other_user_votes, last_sensed_pu_value, sensed_pu_history,
                   time_left_transmitting, time_left_waiting, pass_index>>
    /\ UNCHANGED queueVars
    /\ UNCHANGED datasetVars

\* user.make_decision(...) (cogsim.py 69-70).  make_decision is abstract:
\* a concrete user moves into a band of the simulator, out of its band, or stays.
MakeDecision ==
    /\ pc = "passes"
    /\ LET u == user_index
           view == ViewFor(band_snapshot, current_band, u)
       IN  \E b \in {None} \cup 0..(num_bands - 1) :
             /\ current_band' = [current_band EXCEPT ![u] = b]
             /\ LogCall(u, view, b, <<>>)
    /\ IF user_index < Len(users)
       THEN user_index' = user_index + 1 /\ UNCHANGED pc
       ELSE user_index' = 1 /\ pc' = "metrics"
    /\ UNCHANGED <<users, num_bands, passes, attack_likelihood, evaluation, current_step, other_user_votes,
                   last_sensed_pu_value, sensed_pu_history, time_left_transmitting,
                   time_left_waiting, band_snapshot, pass_index, metrics_calls,
                   step_calls>>
    /\ UNCHANGED queueVars
    /\ UNCHANGED datasetVars

\* user.calculate_step_metrics(self.current_step) (cogsim.py 73-74)
LegacyCalculateStepMetrics ==
    /\ pc = "metrics"
    /\ user_index <= Len(users)
    /\ metrics_calls' = Append(metrics_calls, <<user_index, current_step>>)
    /\ user_index' = user_index + 1
    /\ UNCHANGED <<users, num_bands, passes, attack_likelihood, evaluation, current_step, current_band,
                   other_user_votes, last_sensed_pu_value, sensed_pu_history,
                   time_left_transmitting, time_left_waiting, pc, band_snapshot,
                   pass_index, calls, step_calls>>
    /\ UNCHANGED queueVars
    /\ UNCHANGED datasetVars

\* Simulator.step returns after the metrics loop: current_step is not touched
LegacyStepEnd ==
    /\ pc = "metrics"
    /\ user_index = Len(users) + 1
    /\ pc' = "idle"
    /\ user_index' = 1
    /\ UNCHANGED <<users, num_bands, passes, attack_likelihood, evaluation, current_step, current_band,
                   other_user_votes, last_sensed_pu_value, sensed_pu_history,
                   time_left_transmitting, time_left_waiting, band_snapshot,
                   pass_index, calls, metrics_calls, step_calls>>
    /\ UNCHANGED queueVars
    /\ UNCHANGED datasetVars

NextLegacy ==
    LegacyStepBegin \/ MakeDecision \/ LegacyCalculateStepMetrics \/ LegacyStepEnd

SpecLegacy == InitLegacy /\ [][NextLegacy]_vars

\* ------------------------- SyncSimulator built with too few bands
\* SyncSimulator takes num_bands from its caller and does not validate it,
\* while the users of main.py draw their band from the module's NUM_BANDS.

\* band counts below NUM_BANDS that a caller can pass to SyncSimulator
NarrowBandCounts == {0, 2}

InitNarrow ==
    /\ users \in Populations
    /\ num_bands \in NarrowBandCounts
    /\ passes \in PassCounts
    /\ current_step = 0
    /\ current_band = [u \in UserIds |-> None]
    /\ other_user_votes = [u \in UserIds |-> <<>>]
    /\ last_sensed_pu_value = [u \in UserIds |-> 0]
    /\ sensed_pu_history = [u \in UserIds |-> <<>>]
    /\ time_left_transmitting = [u \in UserIds |-> 0]
    /\ time_left_waiting = [u \in UserIds |-> 0]
    /\ pc = "idle"
    /\ band_snapshot = <<>>
    /\ pass_index = 0
    /\ user_index = 1
    /\ calls = <<>>
    /\ metrics_calls = <<>>
    /\ step_calls = 0
    /\ attack_likelihood = [u \in UserIds |-> 0]
    /\ evaluation = NoEvaluation
    /\ NoQueue
    /\ NoDataset

SpecNarrow == InitNarrow /\ [][Next]_vars

\* ------------------------------------ queue_simulator.py: QueueSimulator
\* The event-queue scheduler (src/src/cogsim/queue/queue_simulator.py) over
\* QueueUsers (queue_user.py).  Wait times are whole time units.

\* the largest population drawn
MaxQueueUsers == 3

\* the wait_time a QueueUser is built with (None stands for the default 1.0)
QueueWaitTimes == {0, 1, 2}

QueuePopulations ==
    UNION { [1..n -> {"QueueUser"}] : n \in 0..MaxQueueUsers }

\* QueueSimulator.__init__ (7-14) over QueueUser.__init__ (9-13):
\* wait_time_remaining keeps its class default 0.0, current_band is None
InitQueue ==
    /\ users \in QueuePopulations
    /\ num_bands = 1
    /\ passes = 1
    /\ current_step = 0
    /\ current_band = [u \in UserIds |-> None]
    /\ other_user_votes = [u \in UserIds |-> <<>>]
    /\ last_sensed_pu_value = [u \in UserIds |-> 0]
    /\ sensed_pu_history = [u \in UserIds |-> <<>>]
    /\ time_left_transmitting = [u \in UserIds |-> 0]
    /\ time_left_waiting = [u \in UserIds |-> 0]
    /\ pc = "idle"
    /\ band_snapshot = <<>>
    /\ pass_index = 0
    /\ user_index = 1
    /\ calls = <<>>
    /\ metrics_calls = <<>>
    /\ step_calls = 0
    /\ attack_likelihood = [u \in UserIds |-> 0]
    /\ evaluation = NoEvaluation
    /\ wait_time \in [UserIds -> QueueWaitTimes]
    /\ wait_time_remaining = [u \in UserIds |-> 0]
    /\ total_time = 0
    /\ next_user = 0
    /\ deduct_calls = <<>>
    /\ NoDataset

\* reset_wait_time written like deduct_wait_time: `-=` where `=` is meant
ResetWaitTimeBySubtracting(rem, u) == [rem EXCEPT ![u] = @ - wait_time[u]]

\* QueueUser.reset_wait_time (queue_user.py 15-16)
ResetWaitTimeOf(rem, u) == [rem EXCEPT ![u] = wait_time[u]]

\* QueueUser.deduct_wait_time (queue_user.py 18-19)
DeductWaitTimeOf(rem, u, amount) == [rem EXCEPT ![u] = @ - amount]

\* a driver calls reset_wait_time() on a user before the first step()
ResetWaitTime ==
    /\ pc = "idle"
    /\ step_calls = 0
    /\ \E u \in UserIds :
         /\ wait_time_remaining[u] # wait_time[u]
         /\ wait_time_remaining' = ResetWaitTimeOf(wait_time_remaining, u)
    /\ UNCHANGED <<users, num_bands, passes, current_step, current_band,
                   other_user_votes, last_sensed_pu_value, sensed_pu_history,
                   time_left_transmitting, time_left_waiting, pc, band_snapshot,
                   pass_index, user_index, calls, metrics_calls, step_calls,
                   attack_likelihood, evaluation, wait_time, total_time,
                   next_user, deduct_calls>>
    /\ UNCHANGED datasetVars

\* the least wait_time_remaining of a non-empty population
MinRemaining(rem) ==
    CHOOSE m \in {rem[u] : u \in DOMAIN rem} : \A u \in DOMAIN rem : m <= rem[u]

\* min() returns the first of the least items of its list
FirstMin(rem) ==
    CHOOSE u \in DOMAIN rem :
        /\ rem[u] = MinRemaining(rem)
        /\ \A x \in DOMAIN rem : rem[x] = MinRemaining(rem) => u <= x

\* the parameters of the key function given to min(): lambda _, t
KeyParameters == 2

\* min() calls key with one argument, the (user, time) pair; a function
\* that needs another number of arguments raises TypeError
KeyCallRaises == KeyParameters # 1

\* the parameters of BaseUser.step besides self, which QueueUser inherits:
\* current_band_contents and pass_index
StepParameters == 2

\* next_user.step(view) passes one argument
StepCallRaises == StepParameters # 1

\* lines 26-30: reset the selected user, deduct from every other user
AfterDeduction(rem, selected, amount) ==
    [u \in DOMAIN rem |->
        IF u = selected THEN ResetWaitTimeOf(rem, u)[u]
        ELSE DeductWaitTimeOf(rem, u, amount)[u]]

\* the amounts passed to deduct_wait_time by lines 26-30, in call order
Deductions(rem, selected, amount) ==
    [i \in 1..(Len(rem) - 1) |-> amount]

\* step() raised before line 26: no user was touched
QueueRaise ==
    /\ pc' = "failed"
    /\ UNCHANGED <<wait_time_remaining, total_time, next_user, deduct_calls>>

\* QueueSimulator.step (queue_simulator.py 16-34)
QueueStep ==
    /\ pc = "idle"
    /\ step_calls < MaxSteps
    /\ step_calls' = step_calls + 1
    /\ IF ~BandContentsOk(current_band)
       THEN QueueRaise /\ UNCHANGED band_snapshot
       ELSE /\ band_snapshot' = BandContents(current_band)
            /\ IF Len(users) = 0 \/ KeyCallRaises
               THEN QueueRaise
               ELSE LET selected == FirstMin(wait_time_remaining)
                        time_to_deduct == MinRemaining(wait_time_remaining)
                    IN  /\ next_user' = selected
                        /\ wait_time_remaining' =
                             AfterDeduction(wait_time_remaining, selected,
                                            time_to_deduct)
                        /\ deduct_calls' =
                             Deductions(wait_time_remaining, selected,
                                        time_to_deduct)
                        /\ IF StepCallRaises
                           THEN /\ pc' = "failed"
                                /\ UNCHANGED total_time
                           ELSE /\ pc' = "idle"
                                /\ total_time' = total_time + time_to_deduct
    /\ UNCHANGED <<users, num_bands, passes, current_step, current_band,
                   other_user_votes, last_sensed_pu_value, sensed_pu_history,
                   time_left_transmitting, time_left_waiting, pass_index,
                   user_index, calls, metrics_calls, attack_likelihood,
                   evaluation, wait_time>>
    /\ UNCHANGED datasetVars

NextQueue ==
    \/ ResetWaitTime
    \/ QueueStep

SpecQueue == InitQueue /\ [][NextQueue]_vars

\* a driver that keeps calling step(): a step() that can be called is called
SpecQueueFair == SpecQueue /\ WF_vars(QueueStep)

\* ------------------------------ cloudsys_makedataset.py: simulate
\* The dataset run: one ProbabilisticSecondaryUser and one
\* RandomSwitchPrimaryUser under Simulator(num_bands=1, passes=1), and the
\* loop of simulate() that records a pair after every step().

\* simulate's time_in_range and time_out_range, as (low, high)
TimeInRange == <<1, 3>>
TimeOutRange == <<1, 3>>

\* rng.integers(low, high) draws from low .. high - 1
GetNewTimeInBand == TimeInRange[1]..(TimeInRange[2] - 1)
GetNewTimeOutOfBand == TimeOutRange[1]..(TimeOutRange[2] - 1)

\* user_list = [su, pu] (line 124)
DatasetUsers == <<"ProbabilisticSecondaryUser", "RandomSwitchPrimaryUser">>

\* simulate (112-128) up to the loop
InitDataset ==
    /\ users = DatasetUsers
    /\ num_bands = 1
    /\ passes = 1
    /\ current_step = 0
    /\ current_band = [u \in UserIds |->
                         IF users[u] = "ProbabilisticSecondaryUser" THEN 0 ELSE None]
    /\ other_user_votes = [u \in UserIds |-> <<>>]
    /\ last_sensed_pu_value = [u \in UserIds |-> 0]
    /\ sensed_pu_history = [u \in UserIds |-> <<>>]
    /\ time_left_transmitting = [u \in UserIds |-> 0]
    /\ time_left_waiting = [u \in UserIds |-> 0]
    /\ pc = "idle"
    /\ band_snapshot = <<>>
    /\ pass_index = 0
    /\ user_index = 1
    /\ calls = <<>>
    /\ metrics_calls = <<>>
    /\ step_calls = 0
    /\ \E p \in AttackLikelihoods :
         attack_likelihood = [u \in UserIds |->
                                IF users[u] = "ProbabilisticSecondaryUser" THEN p ELSE 0]
    /\ evaluation = NoEvaluation
    /\ NoQueue
    /\ timer \in GetNewTimeOutOfBand
    /\ reported_value = 0
    /\ history = <<>>

\* the RandomSwitchPrimaryUsers of a band list (lines 77-79)
RandomSwitchPrimaryUsersIn(members) ==
    SelectSeq(members, LAMBDA x : users[x] = "RandomSwitchPrimaryUser")

\* lines 81-103: rng.uniform() <= attack_probability holds for some draw
\* whatever the probability (uniform() can return 0.0) and fails for some
\* draw unless the probability is 1.0
ProbabilisticReportedValue(u, members) ==
    LET present == Len(RandomSwitchPrimaryUsersIn(members)) > 0
    IN  {IF present THEN NOISE_FLOOR ELSE PU_TRANSMIT_POWER}
        \cup (IF attack_likelihood[u] < 100
              THEN (IF present THEN HonestReadings ELSE {NOISE_FLOOR})
              ELSE {})

\* ProbabilisticSecondaryUser.step (76-103); iterating None raises TypeError
ProbabilisticSecondaryUserStep ==
    /\ pc = "passes"
    /\ users[user_index] = "ProbabilisticSecondaryUser"
    /\ LET u == user_index
           view == ViewFor(band_snapshot, current_band, u)
       IN  IF view.present
           THEN /\ \E v \in ProbabilisticReportedValue(u, view.members) :
                     /\ reported_value' = v
                     /\ LogCall(u, view, current_band[u], <<v>>)
                /\ band_snapshot' = SnapshotInLoop(band_snapshot, current_band)
                /\ NextCall
           ELSE /\ pc' = "failed"
                /\ UNCHANGED <<reported_value, calls, band_snapshot, pass_index,
                               user_index>>
    /\ UNCHANGED <<users, num_bands, passes, attack_likelihood, evaluation,
                   current_step, current_band, other_user_votes,
                   last_sensed_pu_value, sensed_pu_history, time_left_transmitting,
                   time_left_waiting, metrics_calls, step_calls, timer, history>>
    /\ UNCHANGED queueVars

\* RandomSwitchPrimaryUser.step (49-60)
RandomSwitchPrimaryUserStep ==
    /\ pc = "passes"
    /\ users[user_index] = "RandomSwitchPrimaryUser"
    /\ LET u == user_index
           view == ViewFor(band_snapshot, current_band, u)
       IN  /\ IF pass_index # 0
              THEN /\ LogCall(u, view, current_band[u], <<>>)
                   /\ UNCHANGED <<timer, current_band>>
              ELSE IF timer - 1 <= 0
              THEN IF current_band[u] = None
                   THEN /\ current_band' = [current_band EXCEPT ![u] = 0]
                        /\ timer' \in GetNewTimeInBand
                        /\ LogCall(u, view, 0, <<>>)
                   ELSE /\ current_band' = [current_band EXCEPT ![u] = None]
                        /\ timer' \in GetNewTimeOutOfBand
                        /\ LogCall(u, view, None, <<>>)
              ELSE /\ timer' = timer - 1
                   /\ LogCall(u, view, current_band[u], <<>>)
                   /\ UNCHANGED current_band
           /\ band_snapshot' = SnapshotInLoop(band_snapshot, current_band')
           /\ NextCall
    /\ UNCHANGED <<users, num_bands, passes, attack_likelihood, evaluation,
                   current_step, other_user_votes, last_sensed_pu_value,
                   sensed_pu_history, time_left_transmitting, time_left_waiting,
                   metrics_calls, step_calls, reported_value, history>>
    /\ UNCHANGED queueVars

\* the primaryPresentFlag of line 131, from the primary user's band now
PrimaryPresentFlag ==
    IF \E u \in UserIds :
          users[u] = "RandomSwitchPrimaryUser" /\ current_band[u] # None
    THEN 1 ELSE 0

\* line 130: the loop of simulate() calls sim.step() once the pair of the
\* step before is recorded
SimulateStep ==
    /\ Len(history) = step_calls
    /\ StepBegin

\* line 131: history.append([su.reported_value, 1 if pu.current_band is not
\* None else 0]) after step() has returned
SimulateAppend ==
    /\ pc = "idle"
    /\ Len(history) < step_calls
    /\ history' = Append(history, <<reported_value, PrimaryPresentFlag>>)
    /\ UNCHANGED <<users, num_bands, passes, current_step, current_band,
                   other_user_votes, last_sensed_pu_value, sensed_pu_history,
                   time_left_transmitting, time_left_waiting, pc, band_snapshot,
                   pass_index, user_index, calls, metrics_calls, step_calls,
                   attack_likelihood, evaluation, timer, reported_value>>
    /\ UNCHANGED queueVars

NextDataset ==
    \/ SimulateStep
    \/ ProbabilisticSecondaryUserStep
    \/ RandomSwitchPrimaryUserStep
    \/ CalculateStepMetrics
    \/ StepEnd
    \/ SimulateAppend

SpecDataset == InitDataset /\ [][NextDataset]_vars

\* ================================================================ claims

C2_SnapshotFixedInStep ==
    [][ /\ (pc \in {"passes", "metrics"} => band_snapshot' = band_snapshot)
        /\ (pc = "idle" /\ pc' = "passes" => band_snapshot' = BandContents(current_band))
      ]_vars

\* C2 witness: in pass 1 a user is in a band whose snapshot list does not hold it.
C2_Witness ==
    /\ pc = "passes"
    /\ pass_index = 1
    /\ \E u \in UserIds :
         /\ current_band[u] # None
         /\ ~InSeq(u, band_snapshot[current_band[u]])

\* the log entries of one user's pass-0 call, in which it switched band, and
\* of its pass-1 call
SwitchedInPassZero(i, j) ==
    /\ calls[i].user = calls[j].user
    /\ calls[i].pass = 0
    /\ calls[j].pass = 1
    /\ calls[i].before # calls[i].after

\* C3 as stated: the user that switched band in pass 0 is passed in pass 1
\* the membership view it was passed in pass 0.
C3_SameViewAfterSwitch ==
    \A i, j \in 1..Len(calls) :
        SwitchedInPassZero(i, j) => calls[j].view = calls[i].view

\* C3 amended: the user that switched band in pass 0 is passed in pass 1 the
\* start-of-step snapshot list of the band it switched to (None if it left
\* its band).
C3_ViewOfNewBand ==
    \A i, j \in 1..Len(calls) :
        SwitchedInPassZero(i, j) =>
            calls[j].view = IF calls[i].after = None THEN AbsentView
                            ELSE ListView(band_snapshot[calls[i].after])

\* C3 witness: a user switched band in pass 0 and its pass-1 view differs
\* from its pass-0 view.
C3_Witness ==
    \E i, j \in 1..Len(calls) :
        SwitchedInPassZero(i, j) /\ calls[j].view # calls[i].view

\* C4: the k-th user.step call of a step() is made on user ((k-1) mod N) + 1
\* with pass index (k-1) div N: list order inside a pass, pass p complete
\* before pass p+1 starts, and passes * N calls when the passes are over.
C4_CallOrder ==
    LET n == Len(users)
    IN  /\ \A k \in 1..Len(calls) :
              /\ calls[k].user = ((k - 1) % n) + 1
              /\ calls[k].pass = (k - 1) \div n
        /\ pc = "passes" => Len(calls) = pass_index * n + user_index - 1
        /\ (pc = "metrics" \/ (pc = "idle" /\ step_calls > 0)) =>
              Len(calls) = passes * n

\* C4 witness: a two-pass step() has made all its user.step calls.
C4_Witness ==
    /\ pc = "metrics"
    /\ passes = 2
    /\ Len(calls) = 2 * Len(users)

\* C5: the counter starts at 0; in the k-th step() every user's metrics
\* callback is invoked exactly once, in list order, after all user.step calls
\* of the step, with argument k - 1; after the k-th step() returns the
\* counter is k.
C5_CounterCountsSteps ==
    LET n == Len(users)
    IN  /\ step_calls = 0 => current_step = 0
        /\ pc = "idle" => current_step = step_calls
        /\ \A i \in 1..Len(metrics_calls) :
              /\ metrics_calls[i] = <<i, step_calls - 1>>
              /\ Len(calls) = passes * n
        /\ (pc = "idle" /\ step_calls > 0) => Len(metrics_calls) = n

\* the votes of the latest evaluation are all the same value
UniformVotes == \A i, j \in 1..Len(evaluation.vals) : evaluation.vals[i] = evaluation.vals[j]

\* the rational <<a, b>> is less than <<c, d>> (denominators positive)
RatLess(r, q) == r[1] * q[2] < q[1] * r[2]

\* n * |v_i - avg| of the latest evaluation
EvalDeviation(i) == ScaledDeviations(evaluation.vals)[i]

\* C7: when all peers of a reputation computation report the same value,
\* every reputation is 2 (a number: no division by zero, no undefined value).
C7_UniformReputationsAreTwo ==
    (evaluation.user # 0 /\ UniformVotes) =>
        \A i \in 1..Len(evaluation.reps) :
            /\ ~IsNaNReputation(evaluation.reps[i])
            /\ evaluation.reps[i][1] = 2 * evaluation.reps[i][2]

\* C8: when the reports are not all equal, a peer that deviates more from the
\* mean has a strictly lower reputation, peers that deviate equally have
\* equal reputations; for the reports 0, 0, 100 the third peer's reputation
\* is lower than the first's and the second's.
C8_ReputationOrdersByDeviation ==
    (evaluation.user # 0 /\ ~UniformVotes) =>
        /\ \A i, j \in 1..Len(evaluation.vals) :
              /\ EvalDeviation(i) > EvalDeviation(j) =>
                    RatLess(evaluation.reps[i], evaluation.reps[j])
              /\ EvalDeviation(i) = EvalDeviation(j) =>
                    /\ ~RatLess(evaluation.reps[i], evaluation.reps[j])
                    /\ ~RatLess(evaluation.reps[j], evaluation.reps[i])
              /\ evaluation.reps[i][2] > 0
        /\ evaluation.vals = <<0, 0, 100>> =>
              /\ RatLess(evaluation.reps[3], evaluation.reps[1])
              /\ RatLess(evaluation.reps[3], evaluation.reps[2])

\* C8 witness: the reports 0, 0, 100 have been evaluated.
C8_Witness ==
    /\ evaluation.user # 0
    /\ evaluation.vals = <<0, 0, 100>>
    /\ RatLess(evaluation.reps[3], evaluation.reps[1])

\* C9: when every vote equals v and the evaluation starts from the estimate
\* v, the estimate is exactly v after each of the 150 rounds.
C9_UniformInputStaysPut ==
    (/\ evaluation.user # 0
     /\ evaluation.vals # <<>>
     /\ UniformVotes
     /\ evaluation.vals[1] = evaluation.start) =>
        /\ Len(evaluation.estimates) = ROUNDS
        /\ \A k \in 1..ROUNDS : evaluation.estimates[k] = Fx(evaluation.start)

\* the report user x made in pass 0 of the current step() was v
ReportedInPassZero(x, v) ==
    \E k \in 1..Len(calls) :
        calls[k].user = x /\ calls[k].pass = 0 /\ calls[k].reported = <<v>>

\* C6: in the two-pass protocol, when a BasicReDiSenSecondaryUser is about to
\* run its pass-1 evaluation, its vote map holds for every cooperating user
\* of its band snapshot, itself included, the value that user reported in
\* pass 0 of this step.
C6_VotesCompleteBeforeEvaluation ==
    (pc = "passes" /\ pass_index = 1 /\ users[user_index] = "BasicReDiSenSecondaryUser") =>
        LET u == user_index
            members == band_snapshot[current_band[u]]
        IN  /\ InSeq(u, members)
            /\ \A i \in 1..Len(members) :
                  IsBasicReDiSen(members[i]) =>
                      /\ members[i] \in DOMAIN other_user_votes[u]
                      /\ ReportedInPassZero(members[i], other_user_votes[u][members[i]])

\* C6 witness: the first user of the list is about to evaluate and holds the
\* pass-0 report of a cooperating user listed after it.
C6_Witness ==
    /\ pc = "passes" /\ pass_index = 1 /\ user_index = 1
    /\ users[1] = "BasicReDiSenSecondaryUser"
    /\ \E x \in UserIds :
         /\ x > 1 /\ IsBasicReDiSen(x)
         /\ x \in DOMAIN other_user_votes[1]
         /\ ReportedInPassZero(x, other_user_votes[1][x])

\* C10: every value a malicious user with attack likelihood 0.0 reports is a
\* value honest sensing returns for the same band membership (the noise
\* floor when no primary user is in it).
C10_NeverAttackingReportsHonestly ==
    \A k \in 1..Len(calls) :
        (/\ users[calls[k].user] = "MaliciousSecondaryUser"
         /\ attack_likelihood[calls[k].user] = 0
         /\ calls[k].pass = 0) =>
            \E v \in SecondarySensePuValue(calls[k].view) : calls[k].reported = <<v>>

\* a primary user (of either program) is in the band membership `view`
PrimaryInView(view) ==
    /\ view.present
    /\ \E i \in 1..Len(view.members) :
          users[view.members[i]] \in
              {"PrimaryUser", "PrimaryUser(transmit=True)", "PrimaryUser(transmit=False)",
               "RandomSwitchPrimaryUser"}

\* C11: every observation a malicious secondary user with attack likelihood
\* 1.0 reports is the opposite of the truth: the noise floor when a primary
\* user is in the band membership it was passed, the primary's nominal
\* transmit power when none is.
C11_AlwaysAttackingReportsOpposite ==
    \A k \in 1..Len(calls) :
        (/\ users[calls[k].user] = "MaliciousSecondaryUser"
         /\ attack_likelihood[calls[k].user] = 100
         /\ calls[k].pass = 0) =>
            calls[k].reported =
                <<IF PrimaryInView(calls[k].view) THEN NOISE_FLOOR
                  ELSE PU_TRANSMIT_POWER>>

\* C11 witness: an always-attacking user was passed a band with the primary
\* user in it and reported the noise floor.
C11_Witness ==
    \E k \in 1..Len(calls) :
        /\ users[calls[k].user] = "MaliciousSecondaryUser"
        /\ attack_likelihood[calls[k].user] = 100
        /\ PrimaryInView(calls[k].view)
        /\ calls[k].reported = <<NOISE_FLOOR>>

\* step() was called on a non-empty population of the event-queue scheduler
QueueStepOnUsers ==
    /\ pc = "idle"
    /\ step_calls' = step_calls + 1
    /\ Len(wait_time) > 0

\* C12: QueueSimulator.step() on a non-empty population selects the user
\* with the least remaining wait time, the first of them in list order when
\* several tie.
C12_SelectsFirstMinimum ==
    [][QueueStepOnUsers => next_user' = FirstMin(wait_time_remaining)]_vars

\* C13: after QueueSimulator.step(), the remaining wait time of the user
\* selected in that step equals its configured wait interval.
C13_SelectedIsReset ==
    [][QueueStepOnUsers =>
          \E s \in UserIds :
              next_user' = s /\ wait_time_remaining'[s] = wait_time[s]]_vars

\* C14: in one step() with selected minimum m, the remaining wait time of
\* every user but the selected one decreases by m and total_time grows by m.
C14_OthersAndClockMoveByMinimum ==
    [][QueueStepOnUsers =>
          LET m == MinRemaining(wait_time_remaining)
          IN  /\ total_time' = total_time + m
              /\ \A u \in UserIds \ {FirstMin(wait_time_remaining)} :
                    wait_time_remaining'[u] = wait_time_remaining[u] - m]_vars

\* C15: the amounts passed to deduct_wait_time during one step() sum to the
\* minimum remaining wait time selected in that step.
C15_DeductionsSumToMinimum ==
    [][QueueStepOnUsers =>
          SumSeq(deduct_calls') = MinRemaining(wait_time_remaining)]_vars

\* some user's band index is outside [0, num_bands)
BandOutOfRange ==
    \E u \in UserIds :
        current_band[u] # None /\ ~(0 <= current_band[u] /\ current_band[u] < num_bands)

\* C16: a step() that begins while some user's band index is outside
\* [0, num_bands) fails while building the snapshot: no step behaviour and no
\* metrics callback is invoked, the step counter and every user's state are
\* unchanged, and no snapshot holding the index under another band is built.
C16_OutOfRangeFailsInSnapshot ==
    [][(pc = "idle" /\ step_calls' = step_calls + 1 /\ BandOutOfRange) =>
          /\ pc' = "failed"
          /\ calls' = <<>>
          /\ metrics_calls' = <<>>
          /\ current_step' = current_step
          /\ band_snapshot' = band_snapshot
          /\ UNCHANGED <<current_band, other_user_votes, last_sensed_pu_value,
                         sensed_pu_history, time_left_transmitting,
                         time_left_waiting>>]_vars

\* C16 witness: the second step() failed in the snapshot on a band index the
\* simulator does not have, after a first step() that returned.
C16_Witness ==
    /\ pc = "failed"
    /\ current_step = 1
    /\ step_calls = 2
    /\ calls = <<>>
    /\ BandOutOfRange

\* C17: a simulator with num_bands = 0 never completes a step().
C17_ZeroBandsNeverCompletesStep ==
    num_bands = 0 => current_step = 0

\* C18: the consensus is never run on an empty peer set: whenever the
\* reputation computation of an evaluation has run, it ran over at least one
\* vote.
C18_NeverRunOnEmptyPeerSet ==
    evaluation.user # 0 => Len(evaluation.vals) > 0

\* C19: a user's band index changes only in that user's own step call: the
\* snapshot, the advance of the loops, the counter update, a vote delivered
\* by a peer and every metrics callback leave every band index unchanged.
C19_BandChangedOnlyByOwnStep ==
    [][\A u \in UserIds :
          current_band'[u] # current_band[u] =>
              /\ pc = "passes"
              /\ user_index = u
              /\ Len(calls') = Len(calls) + 1
              /\ calls'[Len(calls')].user = u]_vars

\* C19 witness: in a step after the first, one user changed its band in its
\* own call and a user delivered its reading to a peer of its band.
C19_Witness ==
    /\ current_step >= 1
    /\ \E k \in 1..Len(calls) : calls[k].before # calls[k].after
    /\ \E j \in 1..Len(calls) :
         /\ calls[j].reported # <<>>
         /\ \E i \in 1..Len(calls[j].view.members) :
              /\ calls[j].view.members[i] # calls[j].user
              /\ IsCSSUser(calls[j].view.members[i])
              /\ calls[j].user \in DOMAIN other_user_votes[calls[j].view.members[i]]

\* C20: a cooperating user's vote map is overwrite-only: a peer key once
\* present stays, a key appears or its value changes only in the step call in
\* which that peer delivers the new value, so the vote of a peer that left
\* the band is kept with its last value.
C20_VoteMapOverwriteOnly ==
    [][\A u \in UserIds :
          /\ DOMAIN other_user_votes[u] \subseteq DOMAIN other_user_votes'[u]
          /\ \A p \in DOMAIN other_user_votes'[u] :
                (\/ p \notin DOMAIN other_user_votes[u]
                 \/ other_user_votes'[u][p] # other_user_votes[u][p]) =>
                    /\ pc = "passes"
                    /\ user_index = p
                    /\ calls'[Len(calls')].user = p
                    /\ calls'[Len(calls')].reported = <<other_user_votes'[u][p]>>]_vars

\* C20 witness: peer p delivered its vote to u and left the band; u, still
\* in the band, was called after that and still holds p's vote.
C20_Witness ==
    \E u, p \in UserIds :
        /\ u # p
        /\ p \in DOMAIN other_user_votes[u]
        /\ current_band[u] # None
        /\ current_band[p] # current_band[u]
        /\ \E k, j \in 1..Len(calls) :
             /\ k < j
             /\ calls[k].user = p
             /\ calls[k].reported = <<other_user_votes[u][p]>>
             /\ calls[k].before = current_band[u]
             /\ calls[k].after = None
             /\ calls[j].user = u

\* C21: a primary user's duty-cycle counters move in one call per step()
\* only, whatever the pass count: the calls of pass 1 and later leave
\* time_left_transmitting and time_left_waiting as they are, so a period
\* drawn with duration d lasts d steps.
C21_CounterMovesOncePerStep ==
    [][(pc = "passes" /\ IsPrimaryUser(user_index) /\ pass_index >= 1) =>
          /\ time_left_transmitting'[user_index] = time_left_transmitting[user_index]
          /\ time_left_waiting'[user_index] = time_left_waiting[user_index]]_vars

\* C22: the running estimate of a consensus evaluation starts from the value
\* the evaluating user itself sensed and reported in the current step(), not
\* from the mean of the votes nor from a value of an earlier step.
C22_EstimateStartsFromOwnReport ==
    [][(evaluation' # evaluation /\ evaluation'.estimates # <<>>) =>
          \E k \in 1..Len(calls') :
              /\ calls'[k].user = evaluation'.user
              /\ calls'[k].reported = <<evaluation'.start>>]_vars

\* C22 witness: in the second step() a user evaluated votes that differ from
\* its own report of this step, starting from that report.
C22_Witness ==
    /\ current_step = 1
    /\ pc = "passes"
    /\ evaluation.user # 0
    /\ evaluation.estimates # <<>>
    /\ ReportedInPassZero(evaluation.user, evaluation.start)
    /\ \E i \in 1..Len(evaluation.vals) : evaluation.vals[i] # evaluation.start

\* the estimate the latest evaluation had before round k
EstimateBeforeRound(k) ==
    IF k = 1 THEN Fx(evaluation.start) ELSE evaluation.estimates[k - 1]

\* the delta of one round of the latest evaluation against the estimate est:
\* the sum over all peers of (1 - lambda) * reputation_i * (value_i - est)
RoundDelta(est) ==
    LET terms == [i \in 1..Len(evaluation.vals) |->
                    (DISCOUNT_DEN - DISCOUNT_NUM) * evaluation.reps[i][1]
                        * (Fx(evaluation.vals[i]) - est)]
    IN  SumSeq(terms) \div (DISCOUNT_DEN * evaluation.reps[1][2])

\* C23: every consensus evaluation runs exactly 150 rounds; the estimate
\* after a round is the estimate before it plus, once, the sum of every
\* peer's contribution computed against the estimate before the round (a
\* not-a-number reputation makes every estimate not-a-number).
C23_Exactly150JacobiRounds ==
    (evaluation.user # 0 /\ evaluation.estimates # <<>>) =>
        /\ Len(evaluation.estimates) = ROUNDS
        /\ IF \E i \in 1..Len(evaluation.reps) : IsNaNReputation(evaluation.reps[i])
           THEN \A k \in 1..ROUNDS : evaluation.estimates[k] = NaN
           ELSE \A k \in 1..ROUNDS :
                   evaluation.estimates[k] =
                       EstimateBeforeRound(k) + RoundDelta(EstimateBeforeRound(k))

\* C23 witness: an evaluation over at least two different votes ran its 150
\* rounds and the estimate kept moving after the first round.
C23_Witness ==
    /\ evaluation.user # 0
    /\ Len(evaluation.estimates) = ROUNDS
    /\ Len(evaluation.vals) >= 2
    /\ ~UniformVotes
    /\ evaluation.estimates[ROUNDS] # NaN
    /\ evaluation.estimates[ROUNDS] # evaluation.estimates[1]

\* call k of the log is the latest call of its user in this step()
LatestCallOfUser(k) ==
    \A j \in (k + 1)..Len(calls) : calls[j].user # calls[k].user

C25_RecordedPairConsistent ==
    (pc = "idle" /\ history # <<>> /\ Len(history) = step_calls) =>
        LET pair == history[Len(history)]
        IN  \E k \in 1..Len(calls) :
               /\ users[calls[k].user] = "ProbabilisticSecondaryUser"
               /\ calls[k].reported = <<pair[1]>>
               /\ pair[2] = 1 <=> PrimaryInView(calls[k].view)

\* C26: a CSSUser records its estimate once per step(): after k calls of
\* step() its sensed_pu_history has k entries, the last one being its latest
\* fused estimate.
C26_HistoryOneEntryPerStep ==
    (pc = "idle") =>
        \A u \in UserIds :
            IsCSSUser(u) =>
                /\ Len(sensed_pu_history[u]) = current_step
                /\ current_step > 0 =>
                      sensed_pu_history[u][current_step] = last_sensed_pu_value[u]

\* the numerators of the latest evaluation's reputations
ReputationNumerators ==
    [i \in 1..Len(evaluation.reps) |-> evaluation.reps[i][1]]

\* C27: the reputations computed over n >= 1 reports are numbers with a
\* common positive denominator that sum to n when the reports are not all
\* equal and to 2n when they are, and every reputation r has
\* 2 - n/2 <= r <= 2.
C27_ReputationSumAndBounds ==
    (evaluation.user # 0 /\ evaluation.vals # <<>>) =>
        LET n == Len(evaluation.vals)
            den == evaluation.reps[1][2]
        IN  /\ Len(evaluation.reps) = n
            /\ den > 0
            /\ \A i \in 1..n : evaluation.reps[i][2] = den
            /\ SumSeq(ReputationNumerators) =
                  (IF UniformVotes THEN 2 * n ELSE n) * den
            /\ \A i \in 1..n :
                  /\ 2 * evaluation.reps[i][1] >= (4 - n) * den
                  /\ evaluation.reps[i][1] <= 2 * den

\* C28: with every configured wait interval >= 0, every user's remaining
\* wait time is >= 0 after every transition and total_time never decreases.
C28_RemainingNonNegativeClockMonotone ==
    [][(\A u \in UserIds : wait_time[u] >= 0) =>
          /\ \A u \in UserIds : wait_time_remaining'[u] >= 0
          /\ total_time' >= total_time]_vars

\* C28 witness: step() was called on users whose remaining wait times had
\* been set to their intervals, some of them positive.
C28_Witness ==
    /\ step_calls >= 1
    /\ Len(users) >= 2
    /\ \A u \in UserIds : wait_time[u] >= 0 /\ wait_time_remaining[u] = wait_time[u]
    /\ \E u \in UserIds : wait_time_remaining[u] > 0

\* C29: in a population whose wait intervals are all strictly positive no
\* user is starved: under a driver that keeps calling step(), every user is
\* eventually the one selected.
C29_NoUserStarved ==
    \A u \in 1..MaxQueueUsers :
        (u \in UserIds /\ \A x \in UserIds : wait_time[x] > 0) ~> (next_user = u)

====
